---- MODULE Spec2Model ----
(***************************************************************************)
(* ETA prediction service (src/app.py): the /predict handler, predict_eta, *)
(* normalize_value and preprocess_payload, modelled as one request served  *)
(* by a process whose scaling tables were loaded at startup.               *)
(*                                                                         *)
(* Numbers are exact rationals <<n, d>> (d > 0, lowest terms): the model   *)
(* abstracts IEEE rounding and keeps the arithmetic of the formulas.       *)
(* A JSON object (a Python dict) is a sequence of <<key, value>> pairs     *)
(* with distinct keys, in insertion order.                                 *)
(***************************************************************************)
EXTENDS Integers, Sequences, FiniteSets, TLC

VARIABLES
    pickup_scaling,   \* app.py:30-31, column -> [min, max]
    delivery_scaling, \* app.py:32-33
    eta_scaling,      \* app.py:34-35, mode -> [eta_min, eta_max]
    request,          \* the request as the client sent it, or the manual run (never changes)
    data,             \* predict(): the parsed body; predict_eta mutates it through payload
    mode,             \* predict(): data.get("mode", "pickup")
    payload,          \* predict(): data.get("features", data)
    X,                \* predict_eta(): the shaped row
    eta_norm,         \* predict_eta(): float(model.predict(X)[0])
    eta_actual,       \* predict_eta(): the denormalized ETA
    exc,              \* the exception in flight ("" when none)
    response,         \* what the handler answered, or manual_test printed
    pc,               \* the handler's position
    n_normalize,      \* number of normalize_value calls made for this request
    scored            \* the scoring calls made: the model, the row, the outcome

vars == <<pickup_scaling, delivery_scaling, eta_scaling, request, data, mode,
          payload, X, eta_norm, eta_actual, exc, response, pc, n_normalize, scored>>

----------------------------------------------------------------------------
(* Bounds of the model *)

\* longest generated feature mapping (besides the client's complete ones)
MaxEntries == 2
\* scaling-table minima range over 0..MaxMin
MaxMin == 1
\* scaling-table ranges (max - min) range over 0..MaxSpan
MaxSpan == 2

----------------------------------------------------------------------------
(* Exact rational arithmetic standing for Python floats *)

Abs(i) == IF i < 0 THEN -i ELSE i

RECURSIVE GCD(_, _)
GCD(a, b) == IF b = 0 THEN a ELSE GCD(b, a % b)

Rat(n, d) ==
    LET g == GCD(Abs(n), Abs(d))
        sg == IF d < 0 THEN -1 ELSE 1
    IN  <<(sg * n) \div g, (sg * d) \div g>>

Int2Rat(i) == <<i, 1>>
RAdd(a, b) == Rat(a[1] * b[2] + b[1] * a[2], a[2] * b[2])
RSub(a, b) == Rat(a[1] * b[2] - b[1] * a[2], a[2] * b[2])
RMul(a, b) == Rat(a[1] * b[1], a[2] * b[2])
RDiv(a, b) == Rat(a[1] * b[2], a[2] * b[1])
RLess(a, b) == a[1] * b[2] < b[1] * a[2]

----------------------------------------------------------------------------
(* JSON values and dicts *)

Num(q)   == [k |-> "num", q |-> q]
Bool(b)  == [k |-> "bool", b |-> b]
Text(s)  == [k |-> "text", s |-> s]
Null     == [k |-> "null"]
List     == [k |-> "list"]
Obj(m)   == [k |-> "obj", m |-> m]

Keys(m) == {m[i][1] : i \in DOMAIN m}
HasKey(m, key) == key \in Keys(m)
Index(m, key) == CHOOSE i \in DOMAIN m : m[i][1] = key
\* dict.get(key, default)
Get(m, key, default) == IF HasKey(m, key) THEN m[Index(m, key)][2] ELSE default
IsMapping(v) == v.k = "obj"

----------------------------------------------------------------------------
(* DataFrame cells: a float, NaN, a literal text, or the text str() gives a float *)

F(q)    == [k |-> "float", q |-> q]
NaN     == [k |-> "nan"]
Str(s)  == [k |-> "str", s |-> s]
StrF(q) == [k |-> "strf", q |-> q]

IsTextCell(c) == c.k \in {"str", "strf"}
IsNullCell(c) == c.k = "nan"

\* the texts of the model that float() parses, with their values
FloatOfText == ("2.3" :> <<23, 10>>) @@ ("4" :> <<4, 1>>)

\* isinstance(val, (int, float)): bool is a subclass of int
IsNumeric(v) == v.k \in {"num", "bool"}
NumOf(v) == IF v.k = "bool" THEN Int2Rat(IF v.b THEN 1 ELSE 0) ELSE v.q

\* Series.astype(float) succeeds
CanFloat(v) ==
    \/ v.k \in {"num", "bool", "null"}
    \/ v.k = "text" /\ v.s \in DOMAIN FloatOfText

AsFloat(v) ==
    CASE v.k \in {"num", "bool"} -> F(NumOf(v))
      [] v.k = "null" -> NaN
      [] v.k = "text" -> F(FloatOfText[v.s])

\* Series.astype(str) of a column astype(float) refused
AsStr(v) ==
    CASE v.k = "text" -> Str(v.s)
      [] v.k = "list" -> Str("[1, 2]")

\* app.py:55-59
Coerce(v) == IF CanFloat(v) THEN AsFloat(v) ELSE AsStr(v)

\* app.py:69, astype(str) of a coerced column
CellAsStr(c) ==
    CASE c.k = "float" -> StrF(c.q)
      [] c.k = "nan" -> Str("nan")
      [] OTHER -> c

----------------------------------------------------------------------------
(* normalize_value and preprocess_payload *)

Range(s) == {s[i] : i \in DOMAIN s}

scaling_dict(m) == IF m = "pickup" THEN pickup_scaling ELSE delivery_scaling

\* mutant: the result is clamped to [0, 1]
normalize_value_clamped(val, col, m) ==
    IF col \notin DOMAIN scaling_dict(m) THEN val
    ELSE LET vmin == scaling_dict(m)[col].min
             vmax == scaling_dict(m)[col].max
             r == RDiv(RSub(NumOf(val), vmin), RSub(vmax, vmin))
         IN  IF vmax = vmin THEN Num(Int2Rat(0))
             ELSE IF RLess(r, Int2Rat(0)) THEN Num(Int2Rat(0))
             ELSE IF RLess(Int2Rat(1), r) THEN Num(Int2Rat(1))
             ELSE Num(r)

\* app.py:39-48
normalize_value(val, col, m) ==
    IF col \notin DOMAIN scaling_dict(m) THEN val
    ELSE LET vmin == scaling_dict(m)[col].min
             vmax == scaling_dict(m)[col].max
         IN  IF vmax = vmin THEN Num(Int2Rat(0))
             ELSE Num(RDiv(RSub(NumOf(val), vmin), RSub(vmax, vmin)))

cat_features(m) ==
    IF m = "pickup"
    THEN <<"city", "accept_date", "pickup_date", "hour_bucket", "day_type">>
    ELSE <<"city", "accept_date", "delivery_date", "day_type", "hour_bucket">>

expected_cols(m) ==
    IF m = "pickup"
    THEN <<"city", "lng", "lat", "aoi_type", "pickup_distance_km",
           "accept_hour", "pickup_hour", "accept_day", "pickup_day",
           "accept_month", "pickup_month", "accept_date", "pickup_date",
           "hour_bucket", "day_type">>
    ELSE <<"city", "lng", "lat", "aoi_type", "delivery_distance_km",
           "accept_hour", "delivery_hour", "accept_day", "delivery_day",
           "accept_month", "delivery_month", "accept_date", "delivery_date",
           "day_type", "hour_bucket">>

\* pd.DataFrame([payload]): one row, the columns in the dict's order
NewDataFrame(p) ==
    [columns |-> [i \in DOMAIN p |-> p[i][1]],
     row     |-> [c \in Keys(p) |-> Get(p, c, Null)]]

\* app.py:55-59
CoerceColumns(df) ==
    [df EXCEPT !.row = [c \in DOMAIN df.row |-> Coerce(df.row[c])]]

\* mutant: the categorical columns are left as the coercion loop made them
ForceCategoricalSkipped(df, m) == df

\* app.py:67-69
ForceCategorical(df, m) ==
    [df EXCEPT !.row = [c \in DOMAIN df.row |->
        IF c \in Range(cat_features(m)) THEN CellAsStr(df.row[c]) ELSE df.row[c]]]

\* mutant: a missing column is filled with 0.0
AddMissingZero(df, m) ==
    LET Missing(c) == c \notin Range(df.columns)
    IN  [columns |-> df.columns \o SelectSeq(expected_cols(m), Missing),
         row     |-> [c \in DOMAIN df.row \cup Range(expected_cols(m)) |->
                         IF c \in DOMAIN df.row THEN df.row[c] ELSE F(Int2Rat(0))]]

\* app.py:83-85
AddMissing(df, m) ==
    LET Missing(c) == c \notin Range(df.columns)
    IN  [columns |-> df.columns \o SelectSeq(expected_cols(m), Missing),
         row     |-> [c \in DOMAIN df.row \cup Range(expected_cols(m)) |->
                         IF c \in DOMAIN df.row THEN df.row[c] ELSE NaN]]

\* app.py:87, df[expected_cols]
SelectColumns(df, cols) ==
    [columns |-> cols, row |-> [c \in Range(cols) |-> df.row[c]]]

\* mutant: returns df, not df[expected_cols]
preprocess_payload_unselected(p, m) ==
    AddMissing(ForceCategorical(CoerceColumns(NewDataFrame(p)), m), m)

\* app.py:51-87
preprocess_payload(p, m) ==
    SelectColumns(
        AddMissing(ForceCategorical(CoerceColumns(NewDataFrame(p)), m), m),
        expected_cols(m))

\* mutant: the loop skips the categorical columns
NormalizePayloadSkipCategorical(p, m) ==
    [i \in DOMAIN p |->
        IF IsNumeric(p[i][2]) /\ p[i][1] \notin Range(cat_features(m))
        THEN <<p[i][1], normalize_value(p[i][2], p[i][1], m)>>
        ELSE p[i]]

\* app.py:92-94
NormalizePayload(p, m) ==
    [i \in DOMAIN p |->
        IF IsNumeric(p[i][2])
        THEN <<p[i][1], normalize_value(p[i][2], p[i][1], m)>>
        ELSE p[i]]

\* mutant: always the pickup bounds
DenormalizePickup(s, m) ==
    RAdd(RMul(s, RSub(eta_scaling["pickup"].eta_max, eta_scaling["pickup"].eta_min)),
         eta_scaling["pickup"].eta_min)

\* app.py:101-103
Denormalize(s, m) ==
    RAdd(RMul(s, RSub(eta_scaling[m].eta_max, eta_scaling[m].eta_min)),
         eta_scaling[m].eta_min)

RECURSIVE Pow10(_)
Pow10(e) == IF e = 0 THEN 1 ELSE 10 * Pow10(e - 1)

\* round(x, digits): to the nearest multiple of 10^-digits, ties to even
Round(x, digits) ==
    LET scaled == RMul(x, Int2Rat(Pow10(digits)))
        lo == scaled[1] \div scaled[2]
        rem2 == 2 * (scaled[1] - lo * scaled[2])
        up == \/ rem2 > scaled[2]
              \/ rem2 = scaled[2] /\ lo % 2 = 1
    IN  Rat(IF up THEN lo + 1 ELSE lo, Pow10(digits))

----------------------------------------------------------------------------
(* The inputs: scaling tables read at startup, and one client request *)

Modes == {"pickup", "delivery"}

\* [min, max] bounds as training records them: min <= max
MinMax ==
    {[min |-> Int2Rat(lo), max |-> Int2Rat(lo + span)] :
        lo \in 0..MaxMin, span \in 0..MaxSpan}

\* the scaled columns of a table: its numeric columns, and possibly a
\* categorical one (the files are data: nothing in app.py restricts their keys)
TableColumns(m) ==
    <<{m \o "_distance_km", "accept_hour"},
      {m \o "_distance_km", "accept_hour", "city"}>>

\* the table of mode m over columns D: every scaled column with the bounds b,
\* but accept_hour, which is 0..23 in both modes
ScalingTable(D, b) ==
    [c \in D |-> IF c = "accept_hour"
                 THEN [min |-> Int2Rat(0), max |-> Int2Rat(23)] ELSE b]

\* the delivery table's bounds differ from the pickup table's
Shifted(b) == [min |-> RAdd(b.min, Int2Rat(1)), max |-> RAdd(b.max, Int2Rat(1))]

EtaTables ==
    {[pickup   |-> [eta_min |-> Int2Rat(5),  eta_max |-> Int2Rat(65)],
      delivery |-> [eta_min |-> Int2Rat(10), eta_max |-> Int2Rat(130)]],
     [pickup   |-> [eta_min |-> Int2Rat(0),  eta_max |-> <<2401, 10>>],
      delivery |-> [eta_min |-> Int2Rat(30), eta_max |-> Int2Rat(30)]]}

\* what startup (app.py:30-35) may load
Startups ==
    {[pickup   |-> ScalingTable(TableColumns("pickup")[i], b),
      delivery |-> ScalingTable(TableColumns("delivery")[i], Shifted(b)),
      eta      |-> e] :
        i \in DOMAIN TableColumns("pickup"), b \in MinMax, e \in EtaTables}

\* the startups the longer feature mappings are served under
DefaultStartups ==
    {s \in Startups :
        /\ s.pickup["pickup_distance_km"] =
              [min |-> Int2Rat(MaxMin), max |-> Int2Rat(MaxMin + MaxSpan)]
        /\ s.eta.pickup.eta_min = Int2Rat(5)}

\* the keys and values of the generated feature mappings
InputKeys == <<"city", "pickup_distance_km", "delivery_distance_km", "extra">>
InputValues ==
    {Num(Int2Rat(1)), Num(<<23, 10>>), Text("2.3"), Text("Chongqing"), Null}
\* further values a single column of the client's mapping is replaced by
VariantValues ==
    InputValues \cup {Num(Int2Rat(0)), Num(Int2Rat(4)), Text("4"), Bool(TRUE), List}

\* feature mappings of at most MaxEntries entries, keys in InputKeys' order
RECURSIVE MappingsFrom(_, _)
MappingsFrom(i, left) ==
    IF i > Len(InputKeys) \/ left = 0 THEN {<<>>}
    ELSE MappingsFrom(i + 1, left)
         \cup {<<<<InputKeys[i], v>>>> \o rest :
                 v \in InputValues, rest \in MappingsFrom(i + 1, left - 1)}

\* streamlit_app.py:41-60, the mapping the form client sends
ClientPayload(m) ==
    << <<"city", Text("Chongqing")>>,
       <<"lng", Num(<<2131, 20>>)>>,
       <<"lat", Num(<<739, 25>>)>>,
       <<"aoi_type", Num(Int2Rat(1))>>,
       <<m \o "_distance_km", Num(<<5, 2>>)>>,
       <<"accept_hour", Num(Int2Rat(10))>>,
       <<m \o "_hour", Num(Int2Rat(11))>>,
       <<"accept_day", Num(Int2Rat(9))>>,
       <<m \o "_day", Num(Int2Rat(9))>>,
       <<"accept_month", Num(Int2Rat(10))>>,
       <<m \o "_month", Num(Int2Rat(10))>>,
       <<"accept_date", Text("2025-10-09")>>,
       <<m \o "_date", Text("2025-10-09")>>,
       <<"hour_bucket", Text("Afternoon")>>,
       <<"day_type", Text("Weekday")>>
    >>

\* the client's mapping, with one entry replaced or one entry left out
ClientVariants(m) ==
    LET p == ClientPayload(m)
    IN  {p}
        \cup {[p EXCEPT ![i] = <<p[i][1], v>>] : i \in DOMAIN p, v \in VariantValues}
        \cup {SubSeq(p, 1, i - 1) \o SubSeq(p, i + 1, Len(p)) : i \in DOMAIN p}

ModeValues == {Text("pickup"), Text("delivery"), Text("sideways"), Null}

\* JSON object bodies over the feature mappings P: {mode?, features: p} and
\* {mode?, ...p}
BodiesOver(P) ==
    {<<<<"features", Obj(p)>>>> : p \in P}
    \cup {<<<<"mode", mv>>, <<"features", Obj(p)>>>> : mv \in ModeValues, p \in P}
    \cup P
    \cup {<<<<"mode", mv>>>> \o p : mv \in ModeValues, p \in P}

\* the bodies the form client sends (streamlit_app.py:41-60), and their variants
ClientBodies ==
    {<<<<"mode", Text(m)>>, <<"features", Obj(p)>>>> :
        m \in Modes, p \in ClientVariants("pickup") \cup ClientVariants("delivery")}

\* bodies whose features entry is no mapping
OddBodies ==
    {<<<<"mode", mv>>, <<"features", v>>>> :
        mv \in {Text("pickup"), Text("sideways")}, v \in {List, Null, Num(Int2Rat(1))}}

Malformed == [k |-> "malformed"]

\* app.py:159-193, the mappings manual_test scores
ManualPayload(m) ==
    IF m = "pickup"
    THEN << <<"city", Text("Chongqing")>>,
            <<"lng", Num(<<2131, 20>>)>>,
            <<"lat", Num(<<739, 25>>)>>,
            <<"aoi_type", Num(Int2Rat(1))>>,
            <<"pickup_distance_km", Num(<<23, 10>>)>>,
            <<"accept_hour", Num(Int2Rat(10))>>,
            <<"pickup_hour", Num(Int2Rat(11))>>,
            <<"accept_day", Num(Int2Rat(9))>>,
            <<"pickup_day", Num(Int2Rat(9))>>,
            <<"accept_month", Num(Int2Rat(10))>>,
            <<"pickup_month", Num(Int2Rat(10))>>,
            <<"accept_date", Text("2025-10-09")>>,
            <<"pickup_date", Text("2025-10-09")>>,
            <<"hour_bucket", Text("Afternoon")>>,
            <<"day_type", Text("Weekday")>> >>
    ELSE << <<"city", Text("Chongqing")>>,
            <<"lng", Num(<<2131, 20>>)>>,
            <<"lat", Num(<<739, 25>>)>>,
            <<"aoi_type", Num(Int2Rat(1))>>,
            <<"delivery_distance_km", Num(<<14, 5>>)>>,
            <<"accept_hour", Num(Int2Rat(10))>>,
            <<"delivery_hour", Num(Int2Rat(11))>>,
            <<"accept_day", Num(Int2Rat(9))>>,
            <<"delivery_day", Num(Int2Rat(9))>>,
            <<"accept_month", Num(Int2Rat(10))>>,
            <<"delivery_month", Num(Int2Rat(10))>>,
            <<"accept_date", Text("2025-10-09")>>,
            <<"delivery_date", Text("2025-10-09")>>,
            <<"day_type", Text("Weekday")>>,
            <<"hour_bucket", Text("Afternoon")>> >>

\* what the operator types at manual_test's prompt, and its strip().lower()
StripLower ==
    ("pickup" :> "pickup") @@ (" Delivery " :> "delivery") @@ ("Sideways" :> "sideways")

Manual(typed) ==
    [method |-> "CLI", path |-> "manual_test", json |-> Null, typed |-> typed]

Post(j) == [method |-> "POST", path |-> "/predict", json |-> j]

\* served, or run, under every startup
CoreRequests ==
    {[method |-> "GET", path |-> "/", json |-> Null]}
    \cup {Post(Obj(b)) : b \in BodiesOver(MappingsFrom(1, 1)) \cup OddBodies}
    \cup {Post(List), Post(Malformed)}
    \cup {Manual(typed) : typed \in DOMAIN StripLower}

\* served under the default startups
Requests ==
    {Post(Obj(b)) : b \in BodiesOver(MappingsFrom(1, MaxEntries)) \cup ClientBodies}

\* what the opaque scoring functions may return, and raise
ScoreOutputs == {Int2Rat(0), <<1, 3>>, <<3, 2>>}
ScoreErrors == {"CatBoostError"}
\* time.time() - start_time, in seconds
Elapsed == {<<7, 2000>>}

Unset == [k |-> "unset"]

Init ==
    /\ \E s \in Startups :
          /\ pickup_scaling = s.pickup
          /\ delivery_scaling = s.delivery
          /\ eta_scaling = s.eta
          /\ \/ request \in CoreRequests
             \/ s \in DefaultStartups /\ request \in Requests
    /\ data = Unset
    /\ mode = Unset
    /\ payload = Unset
    /\ X = Unset
    /\ eta_norm = Unset
    /\ eta_actual = Unset
    /\ exc = ""
    /\ response = Unset
    /\ pc = "start"
    /\ n_normalize = 0
    /\ scored = <<>>

----------------------------------------------------------------------------
(* The handlers *)

\* app.py:109-114
home ==
    /\ pc = "start"
    /\ request.path = "/"
    /\ response' = [status |-> 200,
                    body |-> [message |-> "ETA Prediction API is running."]]
    /\ pc' = "done"
    /\ UNCHANGED <<pickup_scaling, delivery_scaling, eta_scaling, request, data,
                   mode, payload, X, eta_norm, eta_actual, exc, n_normalize, scored>>

\* mutant: any text passes for a mode
ValidModeAnyText(mv) == mv.k = "text"

\* app.py:127, mode in ["pickup", "delivery"]
ValidMode(mv) == mv \in {Text("pickup"), Text("delivery")}

\* mutant: the default mode is delivery
RequestModeDefaultDelivery(d) == Get(d.m, "mode", Text("delivery"))

\* app.py:124
RequestMode(d) == Get(d.m, "mode", Text("pickup"))

\* app.py:125
FeatureMapping(d) == Get(d.m, "features", d)

\* the text Python gives an AttributeError on a value of this kind
NoAttribute(v, attr) ==
    "'" \o (CASE v.k = "list" -> "list"
              [] v.k = "null" -> "NoneType"
              [] v.k = "num" -> "int"
              [] v.k = "bool" -> "bool"
              [] v.k = "text" -> "str"
              [] OTHER -> "object")
        \o "' object has no attribute '" \o attr \o "'"

\* app.py:119-128: predict() up to the call of predict_eta
predict_begin ==
    /\ pc = "start"
    /\ request.path = "/predict"
    /\ \/ \* request.get_json(force=True) raises on a body that is no JSON
          /\ request.json = Malformed
          /\ exc' = "400 Bad Request: Failed to decode JSON object"
          /\ pc' = "raised"
          /\ UNCHANGED <<data, mode, payload, response>>
       \/ \* data.get on a body that is no object
          /\ request.json # Malformed
          /\ ~IsMapping(request.json)
          /\ data' = request.json
          /\ exc' = NoAttribute(request.json, "get")
          /\ pc' = "raised"
          /\ UNCHANGED <<mode, payload, response>>
       \/ /\ IsMapping(request.json)
          /\ data' = request.json
          /\ mode' = RequestMode(request.json)
          /\ payload' = FeatureMapping(request.json)
          /\ IF ~ValidMode(mode')
             THEN /\ response' =
                        [status |-> 400,
                         body |-> [error |-> "Invalid mode. Must be 'pickup' or 'delivery'"]]
                  /\ pc' = "done"
             ELSE /\ pc' = "normalize"
                  /\ UNCHANGED response
          /\ UNCHANGED exc
    /\ UNCHANGED <<pickup_scaling, delivery_scaling, eta_scaling, request, X,
                   eta_norm, eta_actual, n_normalize, scored>>

\* payload is data itself, or the object data["features"] holds: a write
\* through payload shows in data
DataAfter(d, p) ==
    IF HasKey(d.m, "features")
    THEN Obj([i \in DOMAIN d.m |->
                IF d.m[i][1] = "features" THEN <<"features", p>> ELSE d.m[i]])
    ELSE p

\* app.py:92-94: the normalization loop of predict_eta
predict_eta_normalize ==
    /\ pc = "normalize"
    /\ IF ~IsMapping(payload)
       THEN /\ exc' = NoAttribute(payload, "items")
            /\ pc' = "raised"
            /\ UNCHANGED <<payload, data, n_normalize>>
       ELSE /\ payload' = Obj(NormalizePayload(payload.m, mode.s))
            /\ data' = IF IsMapping(data) THEN DataAfter(data, payload') ELSE data
            /\ n_normalize' =
                  Cardinality({i \in DOMAIN payload.m : IsNumeric(payload.m[i][2])})
            /\ pc' = "shape"
            /\ UNCHANGED exc
    /\ UNCHANGED <<pickup_scaling, delivery_scaling, eta_scaling, request, mode,
                   X, eta_norm, eta_actual, response, scored>>

\* app.py:96
predict_eta_shape ==
    /\ pc = "shape"
    /\ X' = preprocess_payload(payload.m, mode.s)
    /\ pc' = "score"
    /\ UNCHANGED <<pickup_scaling, delivery_scaling, eta_scaling, request, data,
                   mode, payload, eta_norm, eta_actual, exc, response,
                   n_normalize, scored>>

\* app.py:97
SelectModel(m) == IF m = "pickup" THEN "pickup_model" ELSE "delivery_model"

\* app.py:97-99: the opaque scoring function returns a scalar or raises
predict_eta_score ==
    /\ pc = "score"
    /\ \/ \E s \in ScoreOutputs :
            /\ scored' = Append(scored, [model |-> SelectModel(mode.s), row |-> X,
                                         raised |-> FALSE, out |-> s])
            /\ eta_norm' = s
            /\ pc' = "denormalize"
            /\ UNCHANGED exc
       \/ \E e \in ScoreErrors :
            /\ scored' = Append(scored, [model |-> SelectModel(mode.s), row |-> X,
                                         raised |-> TRUE, out |-> e])
            /\ exc' = e
            /\ pc' = "raised"
            /\ UNCHANGED eta_norm
    /\ UNCHANGED <<pickup_scaling, delivery_scaling, eta_scaling, request, data,
                   mode, payload, X, eta_actual, response, n_normalize>>

\* app.py:101-105
predict_eta_return ==
    /\ pc = "denormalize"
    /\ eta_actual' = Denormalize(eta_norm, mode.s)
    /\ pc' = "returned"
    /\ UNCHANGED <<pickup_scaling, delivery_scaling, eta_scaling, request, data,
                   mode, payload, X, eta_norm, exc, response, n_normalize, scored>>

\* app.py:132-142
predict_respond ==
    /\ pc = "returned"
    /\ request.path = "/predict"
    /\ \E t \in Elapsed :
          response' =
             [status |-> 200,
              body |-> [mode |-> mode.s,
                        eta_normalized |-> Round(eta_norm, 4),
                        eta_minutes |-> Round(eta_actual, 2),
                        processing_time_sec |-> Round(t, 3)]]
    /\ pc' = "done"
    /\ UNCHANGED <<pickup_scaling, delivery_scaling, eta_scaling, request, data,
                   mode, payload, X, eta_norm, eta_actual, exc, n_normalize, scored>>

\* mutant: the handler answers with a fixed message
predict_except_generic ==
    /\ pc = "raised"
    /\ request.path = "/predict"
    /\ response' = [status |-> 500, body |-> [error |-> "Internal Server Error"]]
    /\ pc' = "done"
    /\ UNCHANGED <<pickup_scaling, delivery_scaling, eta_scaling, request, data,
                   mode, payload, X, eta_norm, eta_actual, exc, n_normalize, scored>>

\* app.py:144-146
predict_except ==
    /\ pc = "raised"
    /\ request.path = "/predict"
    /\ response' = [status |-> 500, body |-> [error |-> exc]]
    /\ pc' = "done"
    /\ UNCHANGED <<pickup_scaling, delivery_scaling, eta_scaling, request, data,
                   mode, payload, X, eta_norm, eta_actual, exc, n_normalize, scored>>

\* app.py:150-195: manual_test() up to the call of predict_eta
manual_test_begin ==
    /\ pc = "start"
    /\ request.path = "manual_test"
    /\ LET m == StripLower[request.typed]
       IN  IF m \notin Modes
           THEN /\ response' = [printed |-> "Invalid mode. Please enter 'pickup' or 'delivery'."]
                /\ pc' = "done"
                /\ UNCHANGED <<mode, payload>>
           ELSE /\ mode' = Text(m)
                /\ payload' = Obj(ManualPayload(m))
                /\ pc' = "normalize"
                /\ UNCHANGED response
    /\ UNCHANGED <<pickup_scaling, delivery_scaling, eta_scaling, request, data, X,
                   eta_norm, eta_actual, exc, n_normalize, scored>>

\* x // y of a rational by an integer, and the remainder x % y
FloorDiv(x, y) == x[1] \div (x[2] * y)
FloorMod(x, y) == RSub(x, Int2Rat(y * FloorDiv(x, y)))

\* app.py:196-199
manual_test_print ==
    /\ pc = "returned"
    /\ request.path = "manual_test"
    /\ response' =
          [printed |-> [eta_norm |-> Round(eta_norm, 4),
                        eta_actual |-> Round(eta_actual, 2),
                        eta_hours |-> FloorDiv(eta_actual, 60),
                        eta_minutes |-> FloorDiv(FloorMod(eta_actual, 60), 1)]]
    /\ pc' = "done"
    /\ UNCHANGED <<pickup_scaling, delivery_scaling, eta_scaling, request, data,
                   mode, payload, X, eta_norm, eta_actual, exc, n_normalize, scored>>

\* app.py:195: nothing around the call catches, the run ends with the traceback
manual_test_uncaught ==
    /\ pc = "raised"
    /\ request.path = "manual_test"
    /\ pc' = "crashed"
    /\ UNCHANGED <<pickup_scaling, delivery_scaling, eta_scaling, request, data,
                   mode, payload, X, eta_norm, eta_actual, exc, response,
                   n_normalize, scored>>

Next ==
    \/ home
    \/ predict_begin
    \/ predict_eta_normalize
    \/ predict_eta_shape
    \/ predict_eta_score
    \/ predict_eta_return
    \/ predict_respond
    \/ predict_except
    \/ manual_test_begin
    \/ manual_test_print
    \/ manual_test_uncaught

Spec == Init /\ [][Next]_vars

----------------------------------------------------------------------------
(* The columns and categorical sets as the specification documents them *)

DocPickupColumns ==
    <<"city", "lng", "lat", "aoi_type", "pickup_distance_km", "accept_hour",
      "pickup_hour", "accept_day", "pickup_day", "accept_month", "pickup_month",
      "accept_date", "pickup_date", "hour_bucket", "day_type">>

DocDeliveryColumns ==
    <<"city", "lng", "lat", "aoi_type", "delivery_distance_km", "accept_hour",
      "delivery_hour", "accept_day", "delivery_day", "accept_month",
      "delivery_month", "accept_date", "delivery_date", "day_type", "hour_bucket">>

DocColumns(m) == IF m = "pickup" THEN DocPickupColumns ELSE DocDeliveryColumns

DocCategorical(m) ==
    IF m = "pickup"
    THEN {"city", "accept_date", "pickup_date", "hour_bucket", "day_type"}
    ELSE {"city", "accept_date", "delivery_date", "day_type", "hour_bucket"}

\* the value float() accepts: a number, a boolean, null, or a numeric-looking text
DocConvertsToFloat(v) ==
    \/ v.k \in {"num", "bool", "null"}
    \/ v.k = "text" /\ v.s \in {"2.3", "4"}

Shaped == X # Unset

----------------------------------------------------------------------------
(* C1: the row preprocess_payload returns has exactly the mode's 15 expected
   columns in the mode's fixed order (pickup ends hour_bucket, day_type;
   delivery ends day_type, hour_bucket), and no payload key that is not an
   expected column (such as "mode") is in the row. *)
C1_RowHasExpectedColumns ==
    Shaped =>
        LET want == DocColumns(mode.s)
        IN  /\ X.columns = want
            /\ Len(X.columns) = 15
            /\ DOMAIN X.row = Range(want)
            /\ SubSeq(X.columns, 14, 15) =
                  (IF mode.s = "pickup" THEN <<"hour_bucket", "day_type">>
                                        ELSE <<"day_type", "hour_bucket">>)
            /\ \A key \in Keys(payload.m) :
                  key \notin Range(want) =>
                      key \notin DOMAIN X.row /\ key \notin Range(X.columns)

\* a delivery request whose flat body carries mode and an unexpected key
C1_Witness ==
    /\ Shaped
    /\ mode = Text("delivery")
    /\ {"mode", "extra"} \subseteq Keys(payload.m)
    /\ Len(payload.m) < 15

(* C2 as stated: every categorical column of the mode is text in the shaped
   row, whatever the payload. *)
C2_CategoricalAlwaysText ==
    Shaped => \A c \in DocCategorical(mode.s) : IsTextCell(X.row[c])

(* C2 amended: a categorical column the payload supplies is text even when
   the supplied value is numeric or numeric-looking, and one it does not
   supply holds the null marker; every other supplied column is a float when
   its value converts to float and text otherwise; shaping never raises. *)
C2_SuppliedCategoricalIsText ==
    /\ Shaped =>
          \A c \in Range(DocColumns(mode.s)) :
              IF c \in Keys(payload.m)
              THEN LET v == Get(payload.m, c, Null)
                   IN  IF c \in DocCategorical(mode.s) THEN IsTextCell(X.row[c])
                       ELSE IF DocConvertsToFloat(v)
                            THEN X.row[c].k \in {"float", "nan"}
                            ELSE IsTextCell(X.row[c])
              ELSE IsNullCell(X.row[c])
    /\ pc = "score" => exc = "" /\ Shaped

\* a numeric city was shaped into text, beside a numeric distance kept a float
C2_Witness ==
    /\ Shaped
    /\ HasKey(payload.m, "city")
    /\ Get(payload.m, "city", Null).k = "num"
    /\ X.row["city"].k = "strf"
    /\ \E c \in Keys(payload.m) \ DocCategorical(mode.s) :
          c \in DOMAIN X.row /\ X.row[c].k = "float"

(* C3: every expected column the payload lacks is in the shaped row with the
   null marker; for the payload {} the row is the 15 expected columns, all
   null, in the fixed order; and the mode's scoring function is invoked on
   the shaped row all the same. *)
C3_MissingColumnsAreNull ==
    /\ Shaped =>
          /\ \A c \in Range(DocColumns(mode.s)) \ Keys(payload.m) : X.row[c] = NaN
          /\ payload = Obj(<<>>) =>
                X = [columns |-> DocColumns(mode.s),
                     row |-> [c \in Range(DocColumns(mode.s)) |-> NaN]]
    /\ Shaped /\ pc # "score" =>
          /\ Len(scored) = 1
          /\ scored[1].row = X
          /\ scored[1].model = (IF mode = Text("pickup") THEN "pickup_model"
                                                         ELSE "delivery_model")

\* the empty pickup payload was shaped and scored
C3_Witness ==
    /\ payload = Obj(<<>>)
    /\ mode = Text("pickup")
    /\ Len(scored) = 1
    /\ scored[1].row = X
    /\ \A c \in Range(DocPickupColumns) : X.row[c] = NaN

----------------------------------------------------------------------------
(* The normalizer and the request as the specification documents them *)

DocTable(m) ==
    CASE m = "pickup" -> pickup_scaling
      [] m = "delivery" -> delivery_scaling

\* the documented scaling of the number q of column col
DocNormalize(q, col, m) ==
    IF col \notin DOMAIN DocTable(m) THEN q
    ELSE LET lo == DocTable(m)[col].min
             hi == DocTable(m)[col].max
         IN  IF lo = hi THEN Int2Rat(0) ELSE RDiv(RSub(q, lo), RSub(hi, lo))

DocNormalizeValue(v, col, m) ==
    IF col \notin DOMAIN DocTable(m) THEN v ELSE Num(DocNormalize(NumOf(v), col, m))

ProbeColumns ==
    {"city", "lng", "accept_hour", "pickup_distance_km", "delivery_distance_km", "extra"}
ProbeNumbers ==
    {<<-1, 1>>, Int2Rat(0), Int2Rat(1), <<23, 10>>, Int2Rat(3), <<49, 2>>}

IsPredictObject == request.path = "/predict" /\ IsMapping(request.json)
Body == request.json.m
\* the mode the body asks for
SentMode == IF HasKey(Body, "mode") THEN Get(Body, "mode", Null) ELSE Text("pickup")
\* the feature mapping the code takes from the body, as the client sent it
Sent == IF HasKey(Body, "features") THEN Get(Body, "features", Null) ELSE request.json
\* the body without its mode entry
BodyMinusMode == LET NotMode(e) == e[1] # "mode" IN SelectSeq(Body, NotMode)

----------------------------------------------------------------------------
(* C4: normalize_value(v, col, mode) reads the given mode's table and returns
   v unchanged when col has no entry, 0 when the entry's min equals its max,
   and (v - min) / (max - min) otherwise, unclamped: min maps to 0, max to 1,
   and a v outside [min, max] to a result outside [0, 1].  Stated of the
   tables in force where predict_eta is about to call it. *)
C4_NormalizeContract ==
    pc = "normalize" =>
    \A m \in Modes : \A col \in ProbeColumns : \A q \in ProbeNumbers :
        LET r == normalize_value(Num(q), col, m)
        IN  IF col \notin DOMAIN DocTable(m) THEN r = Num(q)
            ELSE LET lo == DocTable(m)[col].min
                     hi == DocTable(m)[col].max
                 IN  IF lo = hi THEN r = Num(Int2Rat(0))
                     ELSE /\ r = Num(RDiv(RSub(q, lo), RSub(hi, lo)))
                          /\ normalize_value(Num(lo), col, m) = Num(Int2Rat(0))
                          /\ normalize_value(Num(hi), col, m) = Num(Int2Rat(1))
                          /\ RLess(q, lo) => RLess(r.q, Int2Rat(0))
                          /\ RLess(hi, q) => RLess(Int2Rat(1), r.q)

\* the normalization step scaled a supplied number above its column's max to
\* a value above 1
C4_Witness ==
    /\ pc = "shape"
    /\ IsPredictObject
    /\ \E i \in DOMAIN payload.m :
          LET key == payload.m[i][1]
          IN  /\ key \in DOMAIN DocTable(mode.s)
              /\ Sent.m[i][2].k = "num"
              /\ RLess(DocTable(mode.s)[key].min, DocTable(mode.s)[key].max)
              /\ RLess(DocTable(mode.s)[key].max, Sent.m[i][2].q)
              /\ RLess(Int2Rat(1), payload.m[i][2].q)

(* C5 as stated: the normalization step keeps the key set, leaves every text
   entry and every entry of a categorical column as it was, and replaces
   every other numeric entry by its normalize_value. *)
C5_CategoricalBypassesNormalization ==
    [][pc = "normalize" /\ pc' = "shape" =>
        /\ Len(payload'.m) = Len(payload.m)
        /\ \A i \in DOMAIN payload.m :
              LET key == payload.m[i][1]
                  v == payload.m[i][2]
              IN  /\ payload'.m[i][1] = key
                  /\ IF v.k = "text" \/ key \in DocCategorical(mode.s)
                     THEN payload'.m[i][2] = v
                     ELSE v.k = "num" =>
                             payload'.m[i][2] = DocNormalizeValue(v, key, mode.s)
    ]_vars

(* C5 amended: the normalization step keeps the key set, leaves every entry
   whose value is not a number (text, null, list) as it was, and replaces
   every entry whose value is a number (booleans included), in a categorical
   column or not, by its normalize_value. *)
C5_NumbersAreNormalizedInPlace ==
    [][pc = "normalize" /\ pc' = "shape" =>
        /\ Len(payload'.m) = Len(payload.m)
        /\ \A i \in DOMAIN payload.m :
              LET key == payload.m[i][1]
                  v == payload.m[i][2]
              IN  /\ payload'.m[i][1] = key
                  /\ IF v.k \in {"num", "bool"}
                     THEN payload'.m[i][2] = DocNormalizeValue(v, key, mode.s)
                     ELSE payload'.m[i][2] = v
    ]_vars

\* a numeric city was rescaled, beside a text entry left as it was
C5_Witness ==
    /\ pc = "shape"
    /\ IsPredictObject
    /\ HasKey(Sent.m, "city")
    /\ Get(Sent.m, "city", Null).k = "num"
    /\ Get(payload.m, "city", Null) # Get(Sent.m, "city", Null)
    /\ \E i \in DOMAIN payload.m : payload.m[i][2].k = "text" /\ payload.m[i] = Sent.m[i]

(* C6: predict_eta returns eta_normalized equal to the scalar s the mode's
   scoring function returned, and eta_minutes = s * (eta_max - eta_min) +
   eta_min with the bounds of that same mode, s not clamped. *)
C6_Denormalized ==
    pc = "returned" =>
        /\ Len(scored) = 1
        /\ ~scored[1].raised
        /\ scored[1].model = (CASE mode.s = "pickup" -> "pickup_model"
                                [] mode.s = "delivery" -> "delivery_model")
        /\ eta_norm = scored[1].out
        /\ LET b == (CASE mode.s = "pickup" -> eta_scaling.pickup
                       [] mode.s = "delivery" -> eta_scaling.delivery)
           IN  eta_actual =
                  RAdd(RMul(scored[1].out, RSub(b.eta_max, b.eta_min)), b.eta_min)

\* a delivery score above 1 was turned into minutes above eta_max
C6_Witness ==
    /\ pc = "returned"
    /\ mode = Text("delivery")
    /\ eta_norm = <<3, 2>>
    /\ RLess(eta_scaling.delivery.eta_max, eta_actual)

----------------------------------------------------------------------------
(* C7: a POST /predict whose mode is neither "pickup" nor "delivery" is
   answered 400 with an error key; the normalizer and the scoring functions
   are not invoked for it and its feature mapping is not modified. *)
C7_InvalidModeRejected ==
    IsPredictObject /\ SentMode \notin {Text("pickup"), Text("delivery")} =>
        /\ pc \in {"start", "done"}
        /\ n_normalize = 0
        /\ scored = <<>>
        /\ X = Unset
        /\ pc = "done" =>
              /\ response.status = 400
              /\ "error" \in DOMAIN response.body
              /\ data = request.json
              /\ payload = Sent

\* mode "sideways" with a number of a scaled column was answered 400
C7_Witness ==
    /\ pc = "done"
    /\ mode = Text("sideways")
    /\ response.status = 400
    /\ IsMapping(payload)
    /\ \E i \in DOMAIN payload.m :
          payload.m[i][2].k = "num" /\ payload.m[i][1] \in DOMAIN delivery_scaling

(* C8: a POST /predict with a valid mode during which normalization, shaping
   or scoring raises is answered 500 with the exception's message under the
   error key; predict_eta catches nothing (it returns no result once an
   exception is in flight, and under manual_test, which has no handler, the
   exception ends the run), and the request is neither answered 200 nor
   scored again. *)
C8_FailuresAnswered500 ==
    /\ Len(scored) <= 1
    /\ scored # <<>> /\ scored[1].raised => exc = scored[1].out
    /\ exc # "" =>
          /\ eta_norm = Unset /\ eta_actual = Unset
          /\ IF request.path = "/predict"
             THEN /\ pc \in {"raised", "done"}
                  /\ pc = "done" =>
                        response = [status |-> 500, body |-> [error |-> exc]]
             ELSE pc \in {"raised", "crashed"} /\ response = Unset
    /\ pc = "done" /\ request.path = "/predict" /\ response.status = 200 => exc = ""

\* the scoring function raised for a valid mode and the handler answered 500
C8_Witness ==
    /\ pc = "done"
    /\ mode \in {Text("pickup"), Text("delivery")}
    /\ scored # <<>> /\ scored[1].raised
    /\ response = [status |-> 500, body |-> [error |-> "CatBoostError"]]

(* C9 as stated: mode is the body's mode entry, or "pickup"; the feature
   mapping is the body's features entry when present and otherwise the body
   minus its mode entry, so predict_eta never sees the mode entry. *)
C9_FeaturesAreBodyMinusMode ==
    pc = "normalize" /\ IsPredictObject =>
        /\ mode = SentMode
        /\ payload = (IF HasKey(Body, "features")
                      THEN Get(Body, "features", Null) ELSE Obj(BodyMinusMode))

(* C9 amended: mode is the body's mode entry, or "pickup"; the feature
   mapping is the body's features entry when present and otherwise the entire
   body, its mode entry included; that entry is text, so normalization leaves
   it as it is, and shaping drops it: it never reaches the row handed to the
   scoring function. *)
C9_FeaturesAreWholeBody ==
    /\ pc \notin {"start", "raised"} /\ IsPredictObject => mode = SentMode
    /\ pc = "normalize" /\ IsPredictObject =>
          payload = (IF HasKey(Body, "features")
                     THEN Get(Body, "features", Null) ELSE Obj(Body))
    /\ Shaped /\ IsPredictObject /\ ~HasKey(Body, "features") /\ HasKey(Body, "mode") =>
          /\ Get(payload.m, "mode", Null) = Get(Body, "mode", Null)
          /\ "mode" \notin DOMAIN X.row
          /\ "mode" \notin Range(X.columns)

\* a flat body's mode entry went through normalization and was dropped by shaping
C9_Witness ==
    /\ Shaped
    /\ IsPredictObject
    /\ ~HasKey(Body, "features")
    /\ Get(payload.m, "mode", Null) = Text("delivery")
    /\ Len(payload.m) > 1
    /\ "mode" \notin DOMAIN X.row

(* C10: every non-categorical cell of the row handed to the scoring function
   that holds a float and whose column has a scaling-table entry holds the
   normalized value of the number the client supplied, be it supplied as a
   number or as numeric-looking text. *)
C10_ScaledColumnsHoldNormalized ==
    IsPredictObject =>
    \A i \in DOMAIN scored :
        LET row == scored[i].row.row
        IN  \A c \in DOMAIN row :
                (/\ c \notin DocCategorical(mode.s)
                 /\ row[c].k = "float"
                 /\ c \in DOMAIN DocTable(mode.s))
                => /\ HasKey(Sent.m, c)
                   /\ LET v == Get(Sent.m, c, Null)
                          x == IF v.k = "text" THEN FloatOfText[v.s] ELSE NumOf(v)
                      IN  row[c] = F(DocNormalize(x, c, mode.s))

====
